---- MODULE Spec2Model ----
(***************************************************************************)
(* The Python adapter of rxing (python/rxing/__init__.py): decode's        *)
(* type-directed dispatch, encode, and the four rendering methods attached *)
(* to BitMatrix.  Pillow and NumPy are modelled by what the calls used in  *)
(* the adapter do; the native extension rxing_lib is not part of the       *)
(* Python sources and is modelled from the specification and the tests.    *)
(***************************************************************************)
EXTENDS Integers, Sequences, FiniteSets, TLC

VARIABLES fs, op, input, calls, fault, outcome, made

vars == <<fs, op, input, calls, fault, outcome, made>>

\* ------------------------------------------------------------------------
\* Bounds of the model
\* ------------------------------------------------------------------------

\* Largest number of modules (width * height) of an arbitrary Module Grid
\* handed to the rendering methods; a zero dimension pairs with 0..MaxCells.
MaxCells == 4

\* Largest trailing channel count of a 3-D array handed to decode.
MaxChannels == 5

\* ------------------------------------------------------------------------
\* Python values
\* ------------------------------------------------------------------------

\* Python's None (a hints argument that was not supplied).
None == [py |-> "None"]

\* dict(): the empty hints mapping.
EmptyHints == [k \in {} |-> <<>>]

RECURSIVE Concat(_)
\* The concatenation of a sequence of sequences.
Concat(ss) == IF ss = <<>> THEN <<>> ELSE Head(ss) \o Concat(Tail(ss))

RECURSIVE Join(_, _)
\* sep.join(rows) on sequences of characters.
Join(rows, sep) ==
    IF rows = <<>> THEN <<>>
    ELSE IF Len(rows) = 1 THEN rows[1]
    ELSE rows[1] \o sep \o Join(Tail(rows), sep)

\* ------------------------------------------------------------------------
\* Pillow: images are [mode, w, h, px], px the pixels in row-major order.
\* Mode 'L' and '1' pixels are integers, 'RGB'/'RGBA' pixels are tuples.
\* ------------------------------------------------------------------------

\* PIL.Image.new(mode, size): an image filled with 0.
ImageNew(mode, w, h) ==
    [mode |-> mode, w |-> w, h |-> h, px |-> [i \in 1..(w * h) |-> 0]]

\* ITU-R 601-2 luma transform used by Image.convert('L') on colour pixels.
Luma(p) == (p[1] * 19595 + p[2] * 38470 + p[3] * 7471 + 32768) \div 65536

\* One pixel of Image.convert('L').
PixelToL(mode, p) == IF mode \in {"L", "1"} THEN p ELSE Luma(p)

\* Image.convert('L').
ConvertL(img) ==
    [mode |-> "L", w |-> img.w, h |-> img.h,
     px |-> [i \in 1..Len(img.px) |-> PixelToL(img.mode, img.px[i])]]

\* Image.convert('1') of an 'L' image: the dither threshold (> 128 is white);
\* the diffused error is 0 for pixels that are exactly 0 or 255.
Convert1(img) ==
    [mode |-> "1", w |-> img.w, h |-> img.h,
     px |-> [i \in 1..Len(img.px) |-> IF img.px[i] > 128 THEN 255 ELSE 0]]

\* Image.tobytes(): row-major, one byte per pixel of an 'L' image and one
\* byte per band of every pixel of a multi-band image.
ToBytes(img) == IF img.mode = "L" THEN img.px ELSE Concat(img.px)

\* ------------------------------------------------------------------------
\* NumPy: arrays are [dtype, shape, flat], flat the elements in row-major
\* order.
\* ------------------------------------------------------------------------

RECURSIVE Product(_)
Product(s) == IF s = <<>> THEN 1 ELSE Head(s) * Product(Tail(s))

\* np.array(rows, dtype=bool) of a list of equally long lists: an empty list
\* is a 1-D array of shape (0,), otherwise the shape is (len(rows), len(row)).
NpArrayBool(rows) ==
    [dtype |-> "bool",
     shape |-> IF rows = <<>> THEN <<0>> ELSE <<Len(rows), Len(rows[1])>>,
     flat  |-> Concat(rows)]

\* np.array(img) of an 'L' image: shape (height, width), dtype uint8.
NpArrayOfImage(img) ==
    [dtype |-> "uint8", shape |-> <<img.h, img.w>>, flat |-> img.px]

\* PIL.Image.fromarray(a, mode): width is the column count, height the row
\* count; a 3-D array groups its trailing axis into one pixel.
FromArray(a, mode) ==
    LET Image(w, h, c) ==
            [mode |-> mode, w |-> w, h |-> h,
             px |-> [i \in 1..(w * h) |->
                       IF mode = "L" THEN a.flat[i]
                       ELSE [k \in 1..c |-> a.flat[(i - 1) * c + k]]]]
    IN Image(a.shape[2], a.shape[1], IF Len(a.shape) = 3 THEN a.shape[3] ELSE 1)

\* ------------------------------------------------------------------------
\* Module Grid Artifact (BitMatrix): [width, height, data], data a list of
\* height rows of width booleans.
\* ------------------------------------------------------------------------

\* The characters of the rendered preview.
FullBlock == "U+2588"

Space == " "

Newline == "\n"

\* "<BitMatrix (empty)>"
EmptyPlaceholder ==
    <<"<", "B", "i", "t", "M", "a", "t", "r", "i", "x", " ",
      "(", "e", "m", "p", "t", "y", ")", ">">>

\* The two values swapped: a dark module painted white.
ModulePixelInverted(dark) == IF dark THEN 255 ELSE 0

\* pixels_l[x, y] = 0 if matrix_data[y][x] else 255
ModulePixel(dark) == IF dark THEN 0 ELSE 255

\* The loop of to_pil_image: the 'L' image after every pixel is assigned.
PaintModules(m) ==
    [ImageNew("L", m.width, m.height) EXCEPT
       !.px = [i \in 1..(m.width * m.height) |->
                 ModulePixel(m.data[((i - 1) \div m.width) + 1]
                                   [((i - 1) % m.width) + 1])]]

\* BitMatrix.to_pil_image
_bitmatrix_to_pil_image(m) ==
    IF m.width = 0 \/ m.height = 0
    THEN ImageNew("1", 0, 0)
    ELSE Convert1(PaintModules(m))

\* BitMatrix.to_numpy_array
_bitmatrix_to_numpy_array(m) == NpArrayBool(m.data)

\* One character per module instead of two.
RowStrNarrow(row) == Concat([x \in 1..Len(row) |->
                      IF row[x] THEN <<FullBlock>> ELSE <<Space>>])

\* "".join(["██" if matrix_data[y][x] else "  " for x in range(self.width)])
RowStr(row) == Concat([x \in 1..Len(row) |->
                   IF row[x] THEN <<FullBlock, FullBlock>>
                   ELSE <<Space, Space>>])

\* BitMatrix.__str__
_bitmatrix_str(m) ==
    IF m.width = 0 \/ m.height = 0
    THEN EmptyPlaceholder
    ELSE Join([y \in 1..m.height |-> RowStr(m.data[y])], <<Newline>>)

\* ------------------------------------------------------------------------
\* Files: a file holds an encoded image [container, mode, w, h, px], a
\* truncated one [container, truncated], other bytes, or does not exist.
\* ------------------------------------------------------------------------

NoFile == [container |-> "none"]

\* Bytes that are not an image file.
Garbage == [container |-> "garbage"]

\* A file whose writing stopped part-way.
Truncated(fmt) == [container |-> fmt, truncated |-> TRUE]

\* The container formats the image library writes (its SAVE registry).
SaveFormats == {"PNG", "BMP"}

\* The bytes Image.save(fp, format=fmt) writes for img.
FileEncode(img, fmt) ==
    [mode |-> img.mode, w |-> img.w, h |-> img.h, px |-> img.px,
     container |-> fmt]

\* Whether bytes hold a complete image file.
IsImageFile(data) ==
    data.container \in SaveFormats /\ "truncated" \notin DOMAIN data

\* str.upper() on the format names used here.
Upper(s) == CASE s = "png" -> "PNG" [] s = "bmp" -> "BMP" [] OTHER -> s

\* ------------------------------------------------------------------------
\* The native extension rxing_lib (engine and its binding).
\* ------------------------------------------------------------------------

\* The names of the BarcodeFormat enumeration used here.
BarcodeFormatNames == {"QR_CODE", "CODE_128", "DATA_MATRIX"}

\* The symbologies the generator of this model writes.
WritableFormats == {"QR_CODE", "CODE_128"}

\* The hint key that restricts decoding to a set of symbologies.
PossibleFormats == "POSSIBLE_FORMATS"

\* Payloads: two short ASCII strings and one beyond every capacity.
ShortTexts == {"Hello", "A"}

TooLong == "<8000 characters>"

TextLen(t) == IF t = "Hello" THEN 5 ELSE 1

\* The module count of the QR symbol the engine picks for a payload:
\* 29 for "Hello" (tests), the smallest version otherwise.
QRDimension(t) == IF t = "Hello" THEN 29 ELSE 21

\* Start, data, check and stop characters of a Code 128 symbol.
C128Width(t) == 11 * (TextLen(t) + 3) + 2

\* Whether module (x, y), counted from 0, of the symbol for t is dark.
Dark(t, f, x, y) ==
    IF f = "QR_CODE" THEN (x + y * TextLen(t)) % 3 = 0
    ELSE x % (TextLen(t) + 1) = 0

\* The modules of the symbol for t, w wide and h high.
Modules(t, f, w, h) ==
    [width |-> w, height |-> h,
     data |-> [y \in 1..h |-> [x \in 1..w |-> Dark(t, f, x - 1, y - 1)]]]

\* The QR symbol of each payload.
QRGrid ==
    [t \in ShortTexts |-> Modules(t, "QR_CODE", QRDimension(t), QRDimension(t))]

\* The Module Grid the generator returns; hh is the height hint, which a
\* 1-D symbology honours.
EngineGrid(t, f, hh) ==
    IF f = "QR_CODE" THEN QRGrid[t] ELSE Modules(t, f, C128Width(t), hh)

\* A Code 128 symbol of one row whose check character is wrong.
DamagedGrid ==
    [width |-> C128Width("A"), height |-> 1,
     data |-> <<[x \in 1..C128Width("A") |-> x % 5 = 0]>>]

\* Whether the luma buffer shows exactly the modules of grid g.
Shows(luma, w, h, g) ==
    /\ g.width = w /\ g.height = h /\ Len(luma) = w * h
    /\ \A y \in 1..h : \A x \in 1..w :
          (luma[(y - 1) * w + x] < 128) = g.data[y][x]

\* The format tag of a Decode Result ("qrcode" in the tests).
ResultFormat(f) == IF f = "QR_CODE" THEN "qrcode" ELSE "code128"

\* The engine's failure with its diagnostic text.
EngineFailure(cause, diag) == [cause |-> cause, diag |-> diag, ok |-> FALSE]

\* The symbologies a decode call looks for under its hints.
Allowed(hints) ==
    IF PossibleFormats \in DOMAIN hints
    THEN {hints[PossibleFormats][i] : i \in 1..Len(hints[PossibleFormats])}
    ELSE BarcodeFormatNames

\* The recognition engine on a luma buffer under translated hints.
EngineRead(luma, w, h, hints) ==
    LET Report(found, allowed) ==
            IF Len(luma) # w * h
            THEN EngineFailure("InvalidArgument", "luma size mismatch")
            ELSE IF found # <<>>
            THEN [ok |-> TRUE,
                  value |-> [text |-> found[1][1],
                             barcode_format |-> ResultFormat(found[1][2])]]
            ELSE IF "CODE_128" \in allowed /\ Shows(luma, w, h, DamagedGrid)
            THEN EngineFailure("FormatError", "FormatException")
            ELSE EngineFailure("NotFound", "NotFoundException")
        Find(allowed) ==
            Report(SelectSeq(<<<<"Hello", "QR_CODE">>, <<"A", "QR_CODE">>,
                               <<"Hello", "CODE_128">>, <<"A", "CODE_128">>>>,
                             LAMBDA s : s[2] \in allowed
                                        /\ Shows(luma, w, h, EngineGrid(s[1], s[2], h))),
                   allowed)
    IN Find(Allowed(hints))

\* The engine's own image codec: the luma image of an image file.
ImageLoad(data) ==
    ConvertL([mode |-> data.mode, w |-> data.w, h |-> data.h, px |-> data.px])

\* The generator: a Module Grid or a failure.
EngineWrite(t, f, wh, hh) ==
    IF f \notin WritableFormats
    THEN EngineFailure("InvalidArgument", "unsupported format")
    ELSE IF t = TooLong
    THEN EngineFailure("InvalidArgument", "data too big")
    ELSE [ok |-> TRUE, value |-> EngineGrid(t, f, hh)]

\* No engine-side failure happened.
NoFault == [cause |-> "none", diag |-> ""]

\* The Python exception class the binding raises for an engine failure.
ExceptionType(cause) ==
    IF cause = "ResourceNotFound" THEN "FileNotFoundError" ELSE "ValueError"

\* Error Mapper: the exception raised for an engine failure; the message
\* carries the engine's diagnostic text after the binding's own words.
ErrorMapper(what, failure) ==
    [type |-> ExceptionType(failure.cause),
     msg  |-> <<"RXing " \o what \o " failed", failure.diag>>]

\* The format names of a restricted-format hint that are no member of the
\* BarcodeFormat enumeration.
UnknownFormats(hints) ==
    IF PossibleFormats \in DOMAIN hints
    THEN {hints[PossibleFormats][i] : i \in 1..Len(hints[PossibleFormats])}
         \ BarcodeFormatNames
    ELSE {}

\* One run of the engine behind an entry point: its result, or its failure
\* mapped to an exception.
RunEngine(what, r) ==
    [fault |-> IF r.ok THEN NoFault ELSE [cause |-> r.cause, diag |-> r.diag],
     reply |-> IF r.ok THEN r
               ELSE [ok |-> FALSE, exc |-> ErrorMapper(what, r)]]

\* An entry point reads its hints first: an unrecognised format name is the
\* engine's failure, and only then the engine runs.
WithHints(what, hints, r) ==
    IF UnknownFormats(hints) # {}
    THEN RunEngine(what, EngineFailure("InvalidArgument", "unknown barcode format"))
    ELSE RunEngine(what, r)

\* rxing_lib.decode_luma_pixels
decode_luma_pixels(luma, w, h, hints) ==
    WithHints("decoding", hints, EngineRead(luma, w, h, hints))

\* rxing_lib.decode_image_bytes
decode_image_bytes(data, hints) ==
    LET Read(img) == EngineRead(img.px, img.w, img.h, hints)
    IN WithHints("decoding", hints,
           IF ~IsImageFile(data)
           THEN EngineFailure("InvalidArgument", "not an image")
           ELSE Read(ImageLoad(data)))

\* rxing_lib.decode_from_file_path
decode_from_file_path(path, hints, fsys) ==
    IF fsys[path] = NoFile
    THEN WithHints("decoding", hints, EngineFailure("ResourceNotFound", "No such file"))
    ELSE decode_image_bytes(fsys[path], hints)

\* rxing_lib.encode
_encode(data, format, width, height, hints) ==
    WithHints("encoding", hints, EngineWrite(data, format, width, height))

\* ------------------------------------------------------------------------
\* python/rxing/__init__.py
\* ------------------------------------------------------------------------

\* def encode(..., width: int = 29, height: int = 29, ...)
DefaultWidth == 29

DefaultHeight == 29

\* The default size the docstring of encode and its test state.
DocumentedDefault == 5

\* An optional argument is <<>> when the caller leaves it out, <<v>> else.
Arg(opt, default) == IF opt = <<>> THEN default ELSE opt[1]

\* hints = {} whatever the caller gave.
DefaultHintsDropped(hints) == EmptyHints

\* if hints is None: hints = {}
DefaultHints(hints) == IF hints = None THEN EmptyHints ELSE hints

\* The calls a Python call made to rxing_lib, the engine's failure if it
\* failed, and how the Python call ended.
Ended(cs, flt, out) == [calls |-> cs, fault |-> flt, outcome |-> out]

\* The call wrapped in try/except that returns None on a failure.
InvokeSwallowing(entry, args, hints, r) ==
    Ended(<<[hints |-> hints, entry |-> entry, args |-> args]>>, r.fault,
          IF r.reply.ok THEN [value |-> r.reply.value, kind |-> "return"]
          ELSE [value |-> None, kind |-> "return"])

\* return _entry(args, hints): one call, its result returned and its
\* exception left to propagate to the caller.
Invoke(entry, args, hints, r) ==
    Ended(<<[hints |-> hints, entry |-> entry, args |-> args]>>, r.fault,
          IF r.reply.ok THEN [value |-> r.reply.value, kind |-> "return"]
          ELSE [exc |-> r.reply.exc, kind |-> "raise"])

\* raise TypeError(msg) before any call to rxing_lib.
RaiseTypeError(msg) ==
    Ended(<<>>, NoFault,
          [exc |-> [type |-> "TypeError", msg |-> <<msg>>], kind |-> "raise"])

\* Only the modes outside ('L', 'RGB', 'RGBA') converted: the elif dropped.
PilToLumaKeepsColour(img) ==
    IF img.mode \notin {"L", "RGB", "RGBA"} THEN ConvertL(img)
    ELSE img

\* The isinstance(source, PIL.Image.Image) branch up to the grayscale image.
PilToLuma(img) ==
    IF img.mode \notin {"L", "RGB", "RGBA"} THEN ConvertL(img)
    ELSE IF img.mode # "L" THEN ConvertL(img)
    ELSE img

\* Any channel count from 3 on.
ChannelsOkLax(c) == c >= 3

\* The channel counts accepted for a 3-D array: source.shape[2] in (3, 4).
ChannelsOk(c) == c \in {3, 4}

\* The 2-D branch reading shape as (width, height).
ArrayToLumaTransposed(a) ==
    IF a.dtype # "uint8"
    THEN [ok |-> FALSE, msg |-> "NumPy array must be of dtype uint8."]
    ELSE IF Len(a.shape) = 2
    THEN [img |-> [FromArray(a, "L") EXCEPT !.w = a.shape[1], !.h = a.shape[2]],
          ok |-> TRUE]
    ELSE IF Len(a.shape) = 3 /\ ChannelsOk(a.shape[3])
    THEN [img |-> ConvertL(FromArray(a, IF a.shape[3] = 3 THEN "RGB" ELSE "RGBA")),
          ok |-> TRUE]
    ELSE [ok |-> FALSE,
          msg |-> "NumPy array must be 2D (grayscale) or 3D (RGB/RGBA)."]

\* The isinstance(source, np.ndarray) branch up to the grayscale image, or
\* the message of the TypeError it raises.
ArrayToLuma(a) ==
    IF a.dtype # "uint8"
    THEN [ok |-> FALSE, msg |-> "NumPy array must be of dtype uint8."]
    ELSE IF Len(a.shape) = 2
    THEN [img |-> FromArray(a, "L"), ok |-> TRUE]
    ELSE IF Len(a.shape) = 3 /\ ChannelsOk(a.shape[3])
    THEN [img |-> ConvertL(FromArray(a, IF a.shape[3] = 3 THEN "RGB" ELSE "RGBA")),
          ok |-> TRUE]
    ELSE [ok |-> FALSE,
          msg |-> "NumPy array must be 2D (grayscale) or 3D (RGB/RGBA)."]

\* decode(source, hints=None)
decode(source, hints, fsys) ==
    LET CallLuma(img, h) ==
            Invoke("decode_luma_pixels", <<ToBytes(img), img.w, img.h>>, h,
                   decode_luma_pixels(ToBytes(img), img.w, img.h, h))
        Array(a, h) == IF a.ok THEN CallLuma(a.img, h) ELSE RaiseTypeError(a.msg)
        Dispatch(h) ==
            CASE source.kind = "str" ->
                   Invoke("decode_from_file_path", <<source.path>>, h,
                          decode_from_file_path(source.path, h, fsys))
              [] source.kind = "bytes" ->
                   Invoke("decode_image_bytes", <<source.data>>, h,
                          decode_image_bytes(source.data, h))
              [] source.kind = "pil" -> CallLuma(PilToLuma(source.img), h)
              [] source.kind = "ndarray" -> Array(ArrayToLuma(source.arr), h)
              [] OTHER ->
                   RaiseTypeError("Unsupported source type. Expected str, bytes, PIL.Image.Image, or numpy.ndarray.")
    IN Dispatch(DefaultHints(hints))

\* encode(data, format, width=29, height=29, hints_dict=None)
encode(data, format, width, height, hints_dict) ==
    LET Call(wd, ht, h) ==
            Invoke("encode", <<data, format, wd, ht>>, h,
                   _encode(data, format, wd, ht, h))
    IN Call(Arg(width, DefaultWidth), Arg(height, DefaultHeight),
            DefaultHints(hints_dict))

\* A path whose directory does not exist (tests).
InvalidPath == "invalid/path/does_not_exist.png"

\* Image.save(file_path, format=fmt): the format is looked up, the file is
\* opened for writing (created or emptied) and the image written to it.  env
\* is what the file system does: io is "ok", "open_fails" or "write_fails";
\* cleanup says whether this Pillow removes a file it created when the
\* write fails.
ImageSave(img, path, fmt, env, fsys) ==
    IF fmt \notin SaveFormats
    THEN [fs |-> fsys,
          outcome |-> [exc |-> [type |-> "KeyError", msg |-> <<fmt>>], kind |-> "raise"]]
    ELSE IF env.io = "open_fails" \/ path = InvalidPath
    THEN [fs |-> fsys,
          outcome |-> [exc |-> [type |-> "OSError", msg |-> <<path>>], kind |-> "raise"]]
    ELSE IF env.io = "write_fails"
    THEN [fs |-> IF fsys[path] = NoFile /\ env.cleanup THEN fsys
                 ELSE [fsys EXCEPT ![path] = Truncated(fmt)],
          outcome |-> [exc |-> [type |-> "OSError", msg |-> <<path>>], kind |-> "raise"]]
    ELSE [fs |-> [fsys EXCEPT ![path] = FileEncode(img, fmt)],
          outcome |-> [value |-> None, kind |-> "return"]]

\* BitMatrix.save(file_path, image_format="PNG")
_bitmatrix_save(m, file_path, image_format, env, fsys) ==
    ImageSave(_bitmatrix_to_pil_image(m), file_path,
              Upper(Arg(image_format, "PNG")), env, fsys)

\* ------------------------------------------------------------------------
\* The inputs of the calls
\* ------------------------------------------------------------------------

\* Module Grids of every shape with at most MaxCells modules, a zero width
\* or height included.
SmallGrids ==
    UNION {{[width |-> d[1], height |-> d[2], data |-> rows] :
               rows \in [1..d[2] -> [1..d[1] -> BOOLEAN]]} :
           d \in {e \in (0..MaxCells) \X (0..MaxCells) : e[1] * e[2] <= MaxCells}}

\* The grayscale pictures: a one-row Code 128 symbol and a blank page.
CodeGray == ConvertL(_bitmatrix_to_pil_image(EngineGrid("A", "CODE_128", 1)))

WhiteGray == [ImageNew("L", 4, 4) EXCEPT !.px = [i \in 1..16 |-> 255]]

\* A picture of a damaged symbol, and a colour picture of a symbol.
DamagedGray == ConvertL(_bitmatrix_to_pil_image(DamagedGrid))

\* Image.convert('RGB') of a grayscale image.
ToRGB(img) ==
    [img EXCEPT !.mode = "RGB",
                !.px = [i \in 1..Len(img.px) |-> <<img.px[i], img.px[i], img.px[i]>>]]

ColourPicture == ToRGB(CodeGray)

\* Each grayscale picture with the file that holds it.
Contents ==
    {[img |-> CodeGray, path |-> "code.png"],
     [img |-> WhiteGray, path |-> "no_barcode_example.png"]}

\* The path save writes to.
OutPath == "out.png"

Paths == {c.path : c \in Contents} \cup {OutPath, InvalidPath}

\* An array of the given dtype and shape, filled with a ramp.
MkArray(dtype, shape) ==
    [dtype |-> dtype, shape |-> shape,
     flat |-> [i \in 1..Product(shape) |-> (i * 37) % 256]]

ArrayShapes ==
    {<<>>, <<2>>, <<1, 1, 2, 3>>}
    \cup {<<h, 2>> : h \in 1..2}
    \cup {<<h, 2, c>> : h \in 1..2, c \in 1..MaxChannels}

\* The four shapes of a grayscale picture.
Shapes(c) ==
    {[path |-> c.path, kind |-> "str"],
     [data |-> FileEncode(c.img, "PNG"), kind |-> "bytes"],
     [img |-> c.img, kind |-> "pil"],
     [kind |-> "ndarray", arr |-> NpArrayOfImage(c.img)]}

\* The sources decode is called with.
DecodeSources ==
    UNION {Shapes(c) : c \in Contents}
    \cup {[path |-> p, kind |-> "str"] : p \in {OutPath, InvalidPath}}
    \cup {[data |-> Garbage, kind |-> "bytes"]}
    \cup {[img |-> i, kind |-> "pil"] : i \in {DamagedGray, ColourPicture}}
    \cup {[kind |-> "ndarray", arr |-> MkArray("uint8", sh)] : sh \in ArrayShapes}
    \cup {[kind |-> "ndarray", arr |-> MkArray("float64", sh)] :
             sh \in {<<2, 2>>, <<2, 2, 3>>}}
    \cup {[kind |-> "other", repr |-> r] : r \in {"12345", "bytearray(b'')"}}

\* The hints decode and encode are called with.
HintsArgs ==
    {None,
     EmptyHints,
     [k \in {PossibleFormats, "CHARACTER_SET"} |->
         IF k = PossibleFormats THEN <<"QR_CODE">> ELSE <<"UTF-8">>],
     [k \in {PossibleFormats, "CHARACTER_SET"} |->
         IF k = PossibleFormats THEN <<"QR_CODE", "QR_KODE">> ELSE <<"UTF-8">>]}

\* The calls of decode: every source without hints, and a source of every
\* kind with every hints mapping.
DecodeArgs ==
    (DecodeSources \X {None})
    \cup ((Shapes(CHOOSE c \in Contents : c.img = CodeGray)
           \cup {[path |-> OutPath, kind |-> "str"],
                 [kind |-> "ndarray", arr |-> MkArray("uint8", <<2, 2, 5>>)],
                 [kind |-> "other", repr |-> "12345"]})
          \X HintsArgs)

\* The calls of encode: width, height and hints are <<>> or None when the
\* caller leaves them out.
EncodeArgs ==
    {[width |-> <<>>, height |-> <<>>, data |-> d, format |-> "QR_CODE", hints_dict |-> None] :
        d \in ShortTexts \cup {TooLong}}
    \cup {[width |-> <<DocumentedDefault>>, height |-> <<DocumentedDefault>>,
           data |-> "Hello", format |-> "QR_CODE", hints_dict |-> None]}
    \cup {[width |-> <<>>, height |-> <<hh>>, data |-> "A", format |-> f,
           hints_dict |-> None] :
             f \in {"CODE_128", "INVALID_FORMAT_XYZ"}, hh \in {1}}
    \cup {[width |-> <<>>, height |-> <<>>, data |-> "Hello", format |-> "QR_CODE",
           hints_dict |-> h] : h \in HintsArgs}

\* What the file system can do during a save: io is how far the write
\* gets, cleanup whether this Pillow removes a file it created when the
\* write fails.
SaveEnvs ==
    {[io |-> "ok", cleanup |-> FALSE], [io |-> "open_fails", cleanup |-> FALSE]}
    \cup [io : {"write_fails"}, cleanup : BOOLEAN]

\* The calls of save: the path, the container format (<<>> when left out)
\* and what the file system does.
SaveArgs ==
    [env : SaveEnvs, file_path : {OutPath}, image_format : {<<>>, <<"png">>, <<"xyz">>}]
    \cup {[env |-> [io |-> "ok", cleanup |-> FALSE], file_path |-> InvalidPath,
           image_format |-> <<>>]}

\* The payload and symbology an object in the caller's hands was made from.
NoOrigin == [data |-> "", format |-> ""]

\* ------------------------------------------------------------------------
\* The calls
\* ------------------------------------------------------------------------

Init ==
    /\ fs = [p \in Paths |->
               IF \E c \in Contents : c.path = p
               THEN FileEncode((CHOOSE c \in Contents : c.path = p).img, "PNG")
               ELSE NoFile]
    /\ op = "import"
    /\ input = <<>>
    /\ calls = <<>>
    /\ fault = NoFault
    /\ outcome = [value |-> None, kind |-> "return"]
    /\ made = NoOrigin

\* decode(source, hints): made' names what the source was made from.
DecodeCall(source, hints, origin) ==
    LET Observe(r) ==
            /\ op' = "decode"
            /\ input' = [hints |-> hints, source |-> source]
            /\ calls' = r.calls
            /\ fault' = r.fault
            /\ outcome' = r.outcome
            /\ made' = origin
            /\ UNCHANGED fs
    IN Observe(decode(source, hints, fs))

\* decode of a source the caller has at hand.
Decode ==
    \E a \in DecodeArgs :
        DecodeCall(a[1], a[2],
                   IF /\ op = "save" /\ outcome.kind = "return"
                      /\ a[1] = [path |-> input.file_path, kind |-> "str"]
                   THEN made ELSE NoOrigin)

\* decode of the image the preceding to_pil_image returned.
DecodeReturned ==
    /\ op = "to_pil_image"
    /\ DecodeCall([img |-> outcome.value, kind |-> "pil"], None, made)

Encode ==
    \E a \in EncodeArgs :
        LET Observe(r) ==
                /\ op' = "encode"
                /\ input' = a
                /\ calls' = r.calls
                /\ fault' = r.fault
                /\ outcome' = r.outcome
                /\ made' = IF r.outcome.kind = "return"
                           THEN [data |-> a.data, format |-> a.format] ELSE NoOrigin
                /\ UNCHANGED fs
        IN Observe(encode(a.data, a.format, a.width, a.height, a.hints_dict))

\* A rendering method that touches neither rxing_lib nor the file system.
Rendered(name, m, value, origin) ==
    /\ op' = name
    /\ input' = [self |-> m]
    /\ calls' = <<>>
    /\ fault' = NoFault
    /\ outcome' = [value |-> value, kind |-> "return"]
    /\ made' = origin
    /\ UNCHANGED fs

\* to_pil_image on the Module Grid the preceding encode returned.
ToPilImageReturned ==
    /\ op = "encode" /\ outcome.kind = "return"
    /\ Rendered("to_pil_image", outcome.value,
                _bitmatrix_to_pil_image(outcome.value), made)

\* save on the Module Grid the preceding encode returned.
Save ==
    /\ op = "encode" /\ outcome.kind = "return"
    /\ \E a \in SaveArgs :
        LET Observe(r) ==
                /\ op' = "save"
                /\ input' = [env |-> a.env, file_path |-> a.file_path,
                             image_format |-> a.image_format, self |-> outcome.value,
                             before |-> fs[a.file_path]]
                /\ calls' = <<>>
                /\ fault' = NoFault
                /\ outcome' = r.outcome
                /\ made' = made
                /\ fs' = r.fs
        IN Observe(_bitmatrix_save(outcome.value, a.file_path, a.image_format, a.env, fs))

Next == Decode \/ DecodeReturned \/ Encode \/ ToPilImageReturned \/ Save

Spec == Init /\ [][Next]_vars

\* The rendering methods as functions of an arbitrary Module Grid.
ToPilImage ==
    \E m \in SmallGrids :
        Rendered("to_pil_image", m, _bitmatrix_to_pil_image(m), NoOrigin)

ToNumpyArray ==
    \E m \in SmallGrids :
        Rendered("to_numpy_array", m, _bitmatrix_to_numpy_array(m), NoOrigin)

Str ==
    \E m \in SmallGrids :
        Rendered("__str__", m, _bitmatrix_str(m), NoOrigin)

NextRender == ToPilImage \/ ToNumpyArray \/ Str

SpecRender == Init /\ [][NextRender]_vars

\* ------------------------------------------------------------------------
\* Properties
\* ------------------------------------------------------------------------

\* Whether decode's dispatch accepts a numeric array: dtype uint8, and 2-D
\* or 3-D with 3 or 4 trailing channels.
AcceptedArray(a) ==
    /\ a.dtype = "uint8"
    /\ \/ Len(a.shape) = 2
       \/ Len(a.shape) = 3 /\ a.shape[3] \in {3, 4}

\* The entry point of rxing_lib a source is dispatched to, "" for none.
EntryFor(source) ==
    CASE source.kind = "str" -> "decode_from_file_path"
      [] source.kind = "bytes" -> "decode_image_bytes"
      [] source.kind = "pil" -> "decode_luma_pixels"
      [] source.kind = "ndarray" /\ AcceptedArray(source.arr) -> "decode_luma_pixels"
      [] OTHER -> ""

\* C1: decode is a total dispatch on the type of its source: a str, a bytes
\* value, a PIL image or an accepted array makes exactly one call, to the
\* file-path, byte-buffer or raw-luma entry point respectively; every other
\* source raises TypeError and makes no call.
C1_DispatchIsTotal ==
    op = "decode" =>
        IF EntryFor(input.source) # ""
        THEN Len(calls) = 1 /\ calls[1].entry = EntryFor(input.source)
        ELSE /\ calls = <<>>
             /\ outcome.kind = "raise"
             /\ outcome.exc.type = "TypeError"

\* A 3-D uint8 array with five channels was refused without a call.
C1_Witness ==
    /\ op = "decode"
    /\ input.source.kind = "ndarray"
    /\ input.source.arr.dtype = "uint8"
    /\ Len(input.source.arr.shape) = 3
    /\ input.source.arr.shape[3] = 5
    /\ calls = <<>>
    /\ outcome.kind = "raise"

\* Two calls of decode answer alike: both return, with the same text and
\* format, or both raise.
SameAnswer(o1, o2) ==
    /\ o1.kind = o2.kind
    /\ o1.kind = "return" =>
          /\ o1.value.text = o2.value.text
          /\ o1.value.barcode_format = o2.value.barcode_format

\* C2: the four shapes of one grayscale picture (image object, 2-D uint8
\* array, encoded bytes, file on disk) decode, under the same hints, to the
\* same text and format, and the image and the array hand the engine the
\* same (luma bytes, width, height, hints).
C2_ShapesAgree ==
    \A c \in Contents :
        (op = "decode" /\ input.source \in Shapes(c)) =>
            /\ \A other \in Shapes(c) :
                   SameAnswer(decode(other, input.hints, fs).outcome, outcome)
            /\ \A other \in {o \in Shapes(c) : o.kind \in {"pil", "ndarray"}} :
                   input.source.kind \in {"pil", "ndarray"} =>
                       decode(other, input.hints, fs).calls = calls

\* The array of the Code 128 picture was decoded to its text.
C2_Witness ==
    /\ op = "decode"
    /\ input.source = [kind |-> "ndarray", arr |-> NpArrayOfImage(CodeGray)]
    /\ input.hints = None
    /\ outcome.kind = "return"
    /\ outcome.value.text = "A"
    /\ calls[1].args = <<CodeGray.px, 46, 1>>

\* C3: decoding the image rendered from encode(text, format), handed over
\* as an image object or saved to a file and decoded by path, returns the
\* text that was encoded.
C3_RoundTrip ==
    (op = "decode" /\ made # NoOrigin /\ input.hints = None) =>
        /\ outcome.kind = "return"
        /\ outcome.value.text = made.data

\* "Hello" came back from the file its QR symbol was saved to.
C3_Witness ==
    /\ op = "decode"
    /\ made = [data |-> "Hello", format |-> "QR_CODE"]
    /\ input.source = [path |-> OutPath, kind |-> "str"]
    /\ input.hints = None
    /\ outcome.kind = "return"
    /\ outcome.value.text = "Hello"

\* Whether a message carries a text.
Carries(msg, text) == \E i \in 1..Len(msg) : msg[i] = text

\* C4: a decode or encode call in which the engine failed raises, and never
\* returns: FileNotFoundError exactly when the path did not resolve,
\* ValueError when no symbol was found, the payload was invalid, the format
\* tag was bad or generation failed; the message carries the engine's
\* diagnostic text, and the engine was called once.
C4_EngineFailureSurfaces ==
    (op \in {"decode", "encode"} /\ fault # NoFault) =>
        /\ outcome.kind = "raise"
        /\ Carries(outcome.exc.msg, fault.diag)
        /\ (outcome.exc.type = "FileNotFoundError") = (fault.cause = "ResourceNotFound")
        /\ fault.cause \in {"NotFound", "FormatError", "InvalidArgument"} =>
              outcome.exc.type = "ValueError"
        /\ Len(calls) = 1

\* Decoding the blank page raised ValueError with "NotFoundException".
C4_Witness ==
    /\ op = "decode"
    /\ fault.cause = "NotFound"
    /\ outcome.kind = "raise"
    /\ outcome.exc.type = "ValueError"
    /\ Carries(outcome.exc.msg, "NotFoundException")

\* The hints argument of the decode or encode call just made.
HintsGiven == IF op = "decode" THEN input.hints ELSE input.hints_dict

\* Whether a hints argument restricts the formats and names one that the
\* BarcodeFormat enumeration does not have.
NamesUnknownFormat(h) ==
    /\ h # None
    /\ PossibleFormats \in DOMAIN h
    /\ \E i \in 1..Len(h[PossibleFormats]) :
           h[PossibleFormats][i] \notin BarcodeFormatNames

QRModuleCounts == {17 + 4 * v : v \in 1..40}

\* C6: encode(text, "QR_CODE") with the default size hints, for a short
\* ASCII text, returns a square Module Grid whose dimension is a valid QR
\* module count and is never the pixel-size hint encode passed on.
C6_DefaultSizeIsNotTheHint ==
    (/\ op = "encode"
     /\ input.format = "QR_CODE"
     /\ input.width = <<>> /\ input.height = <<>>
     /\ input.data \in ShortTexts
     /\ outcome.kind = "return") =>
        /\ outcome.value.width = outcome.value.height
        /\ outcome.value.width \in QRModuleCounts
        /\ outcome.value.width # calls[1].args[3]
        /\ outcome.value.height # calls[1].args[4]

\* C7: to_pil_image never fails: a Module Grid with width > 0 and
\* height > 0 gives a mode '1' image of size (width, height) whose pixel
\* (x, y) is black where data[y][x] is true and white where it is false; a
\* grid of zero width or height gives a zero-size image.
C7_ToPilImage ==
    op = "to_pil_image" =>
        LET m == input.self
            img == outcome.value
        IN /\ outcome.kind = "return"
           /\ img.mode = "1"
           /\ IF m.width > 0 /\ m.height > 0
              THEN /\ img.w = m.width /\ img.h = m.height
                   /\ Len(img.px) = m.width * m.height
                   /\ \A y \in 1..m.height : \A x \in 1..m.width :
                          img.px[(y - 1) * m.width + x] =
                              (IF m.data[y][x] THEN 0 ELSE 255)
              ELSE img.w = 0 /\ img.h = 0 /\ img.px = <<>>

\* A 2 x 2 grid with one dark module, top right, gave one black pixel there.
C7_Witness ==
    /\ op = "to_pil_image"
    /\ input.self.width = 2 /\ input.self.height = 2
    /\ input.self.data = <<<<FALSE, TRUE>>, <<FALSE, FALSE>>>>
    /\ outcome.value.px = <<255, 0, 255, 255>>

\* C8: to_numpy_array of any Module Grid, one of zero width or height
\* included, returns a 2-dimensional boolean array of shape
\* (height, width), row-major, with element [y][x] equal to data[y][x].
C8_ToNumpyArray ==
    op = "to_numpy_array" =>
        LET m == input.self
            a == outcome.value
        IN /\ outcome.kind = "return"
           /\ a.dtype = "bool"
           /\ a.shape = <<m.height, m.width>>
           /\ Len(a.flat) = m.height * m.width
           /\ \A y \in 1..m.height : \A x \in 1..m.width :
                  a.flat[(y - 1) * m.width + x] = m.data[y][x]

\* C9: str of a Module Grid with width > 0 and height > 0 is its rows
\* joined by newlines, without a trailing one, each module two block glyphs
\* when true and two spaces when false; a grid of zero width or height
\* gives a non-empty one-line placeholder.
C9_TextPreview ==
    op = "__str__" =>
        LET m == input.self
            s == outcome.value
            RowLen == 2 * m.width + 1
        IN /\ outcome.kind = "return"
           /\ IF m.width > 0 /\ m.height > 0
              THEN /\ Len(s) = m.height * RowLen - 1
                   /\ \A y \in 1..m.height : \A x \in 1..m.width :
                          LET at == (y - 1) * RowLen + 2 * (x - 1)
                              glyph == IF m.data[y][x] THEN FullBlock ELSE Space
                          IN s[at + 1] = glyph /\ s[at + 2] = glyph
                   /\ \A y \in 1..(m.height - 1) : s[y * RowLen] = Newline
              ELSE /\ s # <<>>
                   /\ \A i \in 1..Len(s) : s[i] # Newline

\* A 2 x 2 grid with one dark module, top right, printed as two rows.
C9_Witness ==
    /\ op = "__str__"
    /\ input.self.data = <<<<FALSE, TRUE>>, <<FALSE, FALSE>>>>
    /\ outcome.value = <<Space, Space, FullBlock, FullBlock, Newline,
                         Space, Space, Space, Space>>

\* C10: save writes the image to_pil_image renders to the path in the
\* given container format, PNG when none is given; after a successful save
\* the destination holds that image, and after a failed one no partial
\* file is left at the destination.
C10_SaveLeavesNoPartialFile ==
    op = "save" =>
        LET fmt == Upper(Arg(input.image_format, "PNG"))
        IN /\ outcome.kind = "return" =>
                 fs[input.file_path] =
                     FileEncode(_bitmatrix_to_pil_image(input.self), fmt)
           /\ outcome.kind = "raise" =>
                 fs[input.file_path] # Truncated(fmt)

\* Whether decode hands a source to the raw-luma entry point.
ReachesLuma(source) ==
    \/ source.kind = "pil"
    \/ source.kind = "ndarray" /\ AcceptedArray(source.arr)

\* C11: on every decode call that reaches decode_luma_pixels the buffer
\* holds width * height bytes, one luma byte per pixel in row-major order,
\* width being the image width or the array's column count and height the
\* image height or the array's row count; the pixels of an 'L' image are
\* passed unchanged and those of every other mode reduced to grayscale.
C11_CanonicalPixelBuffer ==
    (op = "decode" /\ ReachesLuma(input.source)) =>
        /\ Len(calls) = 1
        /\ calls[1].entry = "decode_luma_pixels"
        /\ LET luma == calls[1].args[1]
               w == calls[1].args[2]
               h == calls[1].args[3]
               src == input.source
           IN /\ Len(luma) = w * h
              /\ \A i \in 1..Len(luma) : luma[i] \in 0..255
              /\ src.kind = "pil" =>
                    /\ w = src.img.w /\ h = src.img.h
                    /\ Len(src.img.px) = w * h
                    /\ \A i \in 1..(w * h) :
                           luma[i] = (IF src.img.mode \in {"L", "1"}
                                      THEN src.img.px[i]
                                      ELSE Luma(src.img.px[i]))
              /\ src.kind = "ndarray" =>
                    /\ w = src.arr.shape[2] /\ h = src.arr.shape[1]
                    /\ \A y \in 1..h : \A x \in 1..w :
                           LET i == (y - 1) * w + x
                               c == IF Len(src.arr.shape) = 3
                                    THEN src.arr.shape[3] ELSE 1
                           IN luma[i] =
                                  (IF c = 1 THEN src.arr.flat[i]
                                   ELSE Luma(<<src.arr.flat[(i - 1) * c + 1],
                                               src.arr.flat[(i - 1) * c + 2],
                                               src.arr.flat[(i - 1) * c + 3]>>))

\* The RGB picture of the Code 128 symbol reached decode_luma_pixels as its
\* 46 gray bytes.
C11_Witness ==
    /\ op = "decode"
    /\ input.source.kind = "pil"
    /\ input.source.img.mode = "RGB"
    /\ input.source.img.w = 46
    /\ Len(calls) = 1
    /\ calls[1].entry = "decode_luma_pixels"
    /\ Len(calls[1].args[1]) = 46
    /\ calls[1].args[2] = 46 /\ calls[1].args[3] = 1

====
